---- MODULE Spec2Model ----
(***************************************************************************)
(* User CRUD service of golang-serverless: the router (cmd/main.go), the   *)
(* HTTP handlers (pkg/handlers), the persistence layer (pkg/user) and the  *)
(* email validator (pkg/validators), run by concurrent Lambda invocations  *)
(* against one DynamoDB table.  Every DynamoDB call is one atomic step and *)
(* may fail.  Strings that the code inspects character by character        *)
(* (emails) are sequences of one-character strings.                        *)
(***************************************************************************)
EXTENDS Integers, Sequences, FiniteSets, TLC

\* ------------------------------------------------------------------ bounds

\* The number of DynamoDB calls that fail in one behaviour.
MaxFailures == 1

\* The concurrent Lambda invocations: i1 is sent every request of Requests,
\* i2 the writes of RivalRequests, which race with i1's on one key.
Procs == {"i1", "i2"}

\* ------------------------------------------------------------- validators

Lower == {"a","b","c","d","e","f","g","h","i","j","k","l","m",
          "n","o","p","q","r","s","t","u","v","w","x","y","z"}
Upper == {"A","B","C","D","E","F","G","H","I","J","K","L","M",
          "N","O","P","Q","R","S","T","U","V","W","X","Y","Z"}
Digit == {"0","1","2","3","4","5","6","7","8","9"}

\* The class a-z A-Z 0-9.
AlNum == Lower \cup Upper \cup Digit

\* The class a-z A-Z 0-9 and hyphen.
AlNumHyphen == AlNum \cup {"-"}

\* The grave accent, which the lexer of TLA+ does not take inside a string.
Backtick == "GRAVE"

\* The character class of the local part.
LocalChars == AlNum \cup {".","!","#","$","%","&","'","*","+","/","=","?",
                          "^","_",Backtick,"{","|","}","~","-"}

MinEmailLen == 3
MaxEmailLen == 254
MaxLocalLen == 64
MaxLabelInner == 61

AllIn(s, set) == \A i \in 1..Len(s) : s[i] \in set

\* The local part: 1 to 64 characters of LocalChars.
IsLocalPart(s) == Len(s) >= 1 /\ Len(s) <= MaxLocalLen /\ AllIn(s, LocalChars)

\* One domain label: an alphanumeric, then optionally up to 61 alphanumerics
\* or hyphens followed by an alphanumeric.
IsLabel(s) ==
    /\ Len(s) >= 1
    /\ s[1] \in AlNum
    /\ Len(s) > 1 =>
          /\ s[Len(s)] \in AlNum
          /\ Len(s) - 2 <= MaxLabelInner
          /\ AllIn(SubSeq(s, 2, Len(s) - 1), AlNumHyphen)

\* A label, then any number of dot-label groups: no label holds a dot, so
\* the split at the first dot is the only one the pattern admits.
RECURSIVE IsDomain(_)
IsDomain(s) ==
    IF \E i \in 1..Len(s) : s[i] = "."
    THEN LET i == CHOOSE j \in 1..Len(s) :
                     s[j] = "." /\ \A k \in 1..(j - 1) : s[k] # "."
         IN  IsLabel(SubSeq(s, 1, i - 1)) /\ IsDomain(SubSeq(s, i + 1, Len(s)))
    ELSE IsLabel(s)

\* rxEmail.MatchString, anchored at both ends: the local part holds no "@",
\* so an "@" is the only place the pattern can split.
MatchString(s) ==
    \E i \in 1..Len(s) :
        /\ s[i] = "@"
        /\ IsLocalPart(SubSeq(s, 1, i - 1))
        /\ IsDomain(SubSeq(s, i + 1, Len(s)))

IsEmailValid(email) ==
    IF Len(email) < MinEmailLen \/ Len(email) > MaxEmailLen \/ ~MatchString(email)
    THEN FALSE
    ELSE TRUE

\* ------------------------------------------------------------------ inputs

\* No "email" query parameter, and the email of a body without one.
NoEmail == << >>

EmailA == <<"a", "@", "b">>
EmailB == <<"c", "@", "d", ".", "e">>
EmailBad == <<"a", "@", "-", "b">>

\* The method tokens: the four the router knows and two it does not.
Methods == {"GET", "POST", "PUT", "DELETE", "PATCH", "get"}

\* A body json.Unmarshal rejects.
Malformed == [malformed |-> TRUE]

\* The JSON objects: two users of EmailA, an object that has only the email
\* EmailB, and a user whose email the validator rejects.
JsonBodies ==
    {[email |-> EmailA, firstname |-> "Ann", lastname |-> "Lee"],
     [email |-> EmailA, firstname |-> "", lastname |-> "Roe"],
     [email |-> EmailB],
     [email |-> EmailBad, firstname |-> "Ann", lastname |-> "Lee"]}

Bodies == {Malformed} \cup JsonBodies

\* An APIGatewayProxyRequest: GET and DELETE read the query parameter, POST
\* and PUT the body; the other part of the request is left empty.
Requests ==
    [HTTPMethod : {"GET"}, email : {NoEmail, EmailA, EmailB}, Body : {Malformed}]
        \cup [HTTPMethod : {"DELETE"}, email : {NoEmail, EmailA}, Body : {Malformed}]
        \cup [HTTPMethod : {"POST", "PUT"}, email : {NoEmail}, Body : Bodies]
        \cup [HTTPMethod : Methods \ {"GET", "DELETE", "POST", "PUT"},
               email : {NoEmail}, Body : {Malformed}]

RivalRequests ==
    {[HTTPMethod |-> "POST", email |-> NoEmail,
      Body |-> [email |-> EmailA, firstname |-> "", lastname |-> "Roe"]],
     [HTTPMethod |-> "PUT", email |-> NoEmail,
      Body |-> [email |-> EmailA, firstname |-> "", lastname |-> "Roe"]],
     [HTTPMethod |-> "DELETE", email |-> EmailA, Body |-> Malformed]}

RequestsOf(p) == IF p = "i1" THEN Requests ELSE RivalRequests

\* ------------------------------------------------------------- pkg/user

ErrorFailedToFetchRecord == "failed to fetch record from dynamodb"
ErrorInvalidUserData == "invalid user data"
ErrorInvalidEmail == "invalid email"
ErrorCouldNotDeleteItem == "couldn't delete the item"
ErrorCouldNotDynamoPutItem == "could not dynamo put item"
ErrorUserAlreadyExists == "user already exists"
ErrorUserDoesNotExist == "user doesn't exist"

\* A nil error.
NoErr == ""

\* new(User): every field the empty string.
ZeroUser == [email |-> NoEmail, firstname |-> "", lastname |-> ""]

\* A nil *User.
Nil == [nil |-> TRUE]

\* json.Unmarshal into a User: a field the object lacks keeps its zero value.
JsonUnmarshal(body) ==
    IF body = Malformed
    THEN [err |-> TRUE, user |-> ZeroUser]
    ELSE [err |-> FALSE,
          user |-> [f \in DOMAIN ZeroUser |->
                       IF f \in DOMAIN body THEN body[f] ELSE ZeroUser[f]]]

\* dynamodbattribute encodes a string as {S: s}, and the empty string as
\* {NULL: true}; decoding takes {S: s} to s and anything else to the zero value.
AttrNull == [NULL |-> TRUE]

EncodeString(s, zero) == IF s = zero THEN AttrNull ELSE [S |-> s]

DecodeString(av, zero) == IF "S" \in DOMAIN av THEN av.S ELSE zero

\* MarshalMap of a User whose LastName field carries no tag the encoder reads.
MarshalMapNoLastName(u) ==
    [f \in DOMAIN ZeroUser \ {"lastname"} |-> EncodeString(u[f], ZeroUser[f])]

MarshalMap(u) ==
    [f \in DOMAIN ZeroUser |-> EncodeString(u[f], ZeroUser[f])]

\* GetItemOutput.Item of a key the table does not hold.
NoItem == [absent |-> TRUE]

\* Decoding returns no error on the items this program writes: every
\* attribute of theirs is {S: s} or {NULL: true}.
UnmarshalMap(item) ==
    IF item = NoItem
    THEN ZeroUser
    ELSE [f \in DOMAIN ZeroUser |->
             IF f \in DOMAIN item THEN DecodeString(item[f], ZeroUser[f])
             ELSE ZeroUser[f]]

\* ---------------------------------------------------------------- state

VARIABLES
    table,      \* the DynamoDB table: primary key (email) -> item
    failures,   \* DynamoDB calls that have failed so far
    inv,        \* per invocation: pc, req, newUser, op, calls, resp, and the
                \* history fields solo and existed
    created     \* key -> the user submitted to the last Create answered 201,
                \* until an Update puts the key or a Delete removes it (history)

vars == <<table, failures, inv, created>>

NoResp == [StatusCode |-> 0, Body |-> [none |-> TRUE]]

NoReq == [HTTPMethod |-> "", email |-> NoEmail, Body |-> Malformed]

Idle ==
    [pc |-> "idle", req |-> NoReq, newUser |-> ZeroUser, op |-> "",
     calls |-> << >>, resp |-> NoResp, solo |-> TRUE, existed |-> FALSE]

EmptyTable == [k \in {} |-> NoItem]

Init ==
    /\ table = EmptyTable
    /\ failures = 0
    /\ inv = [p \in Procs |-> Idle]
    /\ created = [k \in {} |-> ZeroUser]

\* Whether a DynamoDB call may have the outcome ok: any call may fail, for
\* whatever reason the service has (its own validation of the input among
\* them), as long as the behaviour has failures left.
Outcome(ok) == ok \/ failures < MaxFailures

Failed(calls) == Cardinality({i \in 1..Len(calls) : ~calls[i].ok})

\* ------------------------------------------------------------- DynamoDB

\* The primary key of an item.
KeyOf(item) == DecodeString(item.email, NoEmail)

GetItem(key, ok) ==
    [call |-> [api |-> "GetItem", ok |-> ok],
     err |-> ~ok,
     Item |-> IF ok /\ key \in DOMAIN table THEN table[key] ELSE NoItem]

Scan(ok) ==
    [call |-> [api |-> "Scan", ok |-> ok],
     err |-> ~ok,
     Items |-> IF ok THEN {table[k] : k \in DOMAIN table} ELSE {}]

PutItem(item, ok) ==
    [call |-> [api |-> "PutItem", ok |-> ok],
     err |-> ~ok,
     table |-> IF ok
               THEN [k \in DOMAIN table \cup {KeyOf(item)} |->
                        IF k = KeyOf(item) THEN item ELSE table[k]]
               ELSE table]

DeleteItem(key, ok) ==
    [call |-> [api |-> "DeleteItem", ok |-> ok],
     err |-> ~ok,
     table |-> IF ok THEN [k \in DOMAIN table \ {key} |-> table[k]] ELSE table]

\* ------------------------------------------------- pkg/user: the fetches

\* FetchUser that reports a key the table does not hold as an error.
FetchUserNotFound(email, ok) ==
    LET result == GetItem(email, ok)
    IN  IF result.err \/ result.Item = NoItem
        THEN [user |-> Nil, err |-> ErrorFailedToFetchRecord, call |-> result.call]
        ELSE [user |-> UnmarshalMap(result.Item), err |-> NoErr, call |-> result.call]

FetchUser(email, ok) ==
    LET result == GetItem(email, ok)
    IN  IF result.err
        THEN [user |-> Nil, err |-> ErrorFailedToFetchRecord, call |-> result.call]
        ELSE [user |-> UnmarshalMap(result.Item), err |-> NoErr, call |-> result.call]

\* The list is modelled as the set of its records: Scan fixes no order.
FetchUsers(ok) ==
    LET result == Scan(ok)
    IN  IF result.err
        THEN [users |-> {}, err |-> ErrorFailedToFetchRecord, call |-> result.call]
        ELSE [users |-> {UnmarshalMap(i) : i \in result.Items}, err |-> NoErr,
              call |-> result.call]

\* ------------------------------------------------------- pkg/handlers

StatusOK == 200
StatusCreated == 201
StatusBadRequest == 400
StatusMethodNotAllowed == 405

ErrorMethodNotAllowed == "method not allowed"
DeletedMessage == "User deleted successfully"

\* The JSON body: an ErrorBody, a User, a list of Users or a string.
apiResponse(status, body) == [StatusCode |-> status, Body |-> body]

ErrorBody(msg) == [error |-> msg]

\* An invocation is running from its first DynamoDB call to its answer: for
\* the one-call handlers that is one step, for Create and Update two.
Running(q) == inv[q].pc = "put"

\* The email a request is about: the body's for POST and PUT, else the query's.
RequestKey(r) ==
    IF r.HTTPMethod \in {"POST", "PUT"} THEN JsonUnmarshal(r.Body).user.email
    ELSE r.email

\* The invocations after the first step of p's handler on request r.  The
\* history fields: solo, that no other request ran while this one did, and
\* existed, that the table held a record of the request's email when it came.
After(p, r, pc, op, newUser, calls, resp) ==
    [q \in Procs |->
        IF q = p
        THEN [pc |-> pc, req |-> r, newUser |-> newUser, op |-> op,
              calls |-> calls, resp |-> resp,
              solo |-> \A o \in Procs \ {p} : ~Running(o),
              existed |-> RequestKey(r) \in DOMAIN table]
        ELSE IF Running(q) THEN [inv[q] EXCEPT !.solo = FALSE]
        ELSE inv[q]]

\* The invocations after the put of p's handler.
Finish(p, calls, resp) ==
    [inv EXCEPT ![p] = [@ EXCEPT !.pc = "done", !.calls = @ \o calls,
                                 !.resp = resp]]

GetUser(p, r) ==
    \E ok \in BOOLEAN :
        LET email == r.email
            one == FetchUser(email, ok)
            all == FetchUsers(ok)
            call == IF Len(email) > 0 THEN one.call ELSE all.call
            resp == IF Len(email) > 0
                    THEN IF one.err # NoErr
                         THEN apiResponse(StatusBadRequest, ErrorBody(one.err))
                         ELSE apiResponse(StatusOK, [user |-> one.user])
                    ELSE IF all.err # NoErr
                         THEN apiResponse(StatusBadRequest, ErrorBody(all.err))
                         ELSE apiResponse(StatusOK, [users |-> all.users])
        IN  /\ Outcome(ok)
            /\ inv' = After(p, r, "done", "GetUser", ZeroUser, <<call>>, resp)
            /\ failures' = failures + Failed(<<call>>)
            /\ UNCHANGED <<table, created>>

\* CreateUserCheck without the validation of the email, as in UpdateUser.
CreateUserCheckNoValidation(body, ok) ==
    LET dec == JsonUnmarshal(body)
        curr == FetchUser(dec.user.email, ok)
    IN  IF dec.err
        THEN [newUser |-> dec.user, err |-> ErrorInvalidUserData, calls |-> << >>]
        ELSE IF curr.user # Nil /\ Len(curr.user.email) # 0
        THEN [newUser |-> dec.user, err |-> ErrorUserAlreadyExists,
              calls |-> <<curr.call>>]
        ELSE [newUser |-> dec.user, err |-> NoErr, calls |-> <<curr.call>>]

\* user.CreateUser up to its existence check: the decoded user, the error it
\* returns here (NoErr when it goes on to the put) and the calls it made.
CreateUserCheck(body, ok) ==
    LET dec == JsonUnmarshal(body)
        curr == FetchUser(dec.user.email, ok)
    IN  IF dec.err
        THEN [newUser |-> dec.user, err |-> ErrorInvalidUserData, calls |-> << >>]
        ELSE IF ~IsEmailValid(dec.user.email)
        THEN [newUser |-> dec.user, err |-> ErrorInvalidEmail, calls |-> << >>]
        ELSE IF curr.user # Nil /\ Len(curr.user.email) # 0
        THEN [newUser |-> dec.user, err |-> ErrorUserAlreadyExists,
              calls |-> <<curr.call>>]
        ELSE [newUser |-> dec.user, err |-> NoErr, calls |-> <<curr.call>>]

\* user.UpdateUser up to its existence check.
UpdateUserCheck(body, ok) ==
    LET dec == JsonUnmarshal(body)
        curr == FetchUser(dec.user.email, ok)
    IN  IF dec.err
        THEN [newUser |-> dec.user, err |-> ErrorInvalidEmail, calls |-> << >>]
        ELSE IF curr.user # Nil /\ Len(curr.user.email) = 0
        THEN [newUser |-> dec.user, err |-> ErrorUserDoesNotExist,
              calls |-> <<curr.call>>]
        ELSE [newUser |-> dec.user, err |-> NoErr, calls |-> <<curr.call>>]

\* PutUser with a failed put tried once more.
PutUserRetry(newUser, ok) ==
    LET put == PutItem(MarshalMap(newUser), ok)
    IN  IF put.err
        THEN [user |-> Nil, err |-> ErrorCouldNotDynamoPutItem,
              calls |-> <<put.call, put.call>>, table |-> put.table]
        ELSE [user |-> newUser, err |-> NoErr,
              calls |-> <<put.call>>, table |-> put.table]

\* The rest of user.CreateUser and user.UpdateUser: marshal and put.
\* MarshalMap of a struct of three strings returns no error.
PutUser(newUser, ok) ==
    LET put == PutItem(MarshalMap(newUser), ok)
    IN  IF put.err
        THEN [user |-> Nil, err |-> ErrorCouldNotDynamoPutItem,
              calls |-> <<put.call>>, table |-> put.table]
        ELSE [user |-> newUser, err |-> NoErr,
              calls |-> <<put.call>>, table |-> put.table]

\* The first step of handlers.CreateUser and handlers.UpdateUser: an error
\* of the check is answered at once.
Check(p, r, op, chk) ==
    /\ inv' = IF chk.err # NoErr
              THEN After(p, r, "done", op, chk.newUser, chk.calls,
                         apiResponse(StatusBadRequest, ErrorBody(chk.err)))
              ELSE After(p, r, "put", op, chk.newUser, chk.calls, NoResp)
    /\ failures' = failures + Failed(chk.calls)
    /\ UNCHANGED <<table, created>>

CreateUser(p, r) ==
    \E ok \in BOOLEAN :
        LET chk == CreateUserCheck(r.Body, ok)
        IN  /\ Outcome(ok)
            /\ ok \/ chk.calls # << >>
            /\ Check(p, r, "CreateUser", chk)

UpdateUser(p, r) ==
    \E ok \in BOOLEAN :
        LET chk == UpdateUserCheck(r.Body, ok)
        IN  /\ Outcome(ok)
            /\ ok \/ chk.calls # << >>
            /\ Check(p, r, "UpdateUser", chk)

Without(f, key) == [k \in DOMAIN f \ {key} |-> f[k]]

\* The second step of handlers.CreateUser: the put and the answer.
CreateUserPut(p) ==
    /\ inv[p].pc = "put"
    /\ inv[p].op = "CreateUser"
    /\ \E ok \in BOOLEAN :
          LET res == PutUser(inv[p].newUser, ok)
              key == inv[p].newUser.email
          IN  /\ Outcome(ok)
              /\ inv' = Finish(p, res.calls,
                               IF res.err # NoErr
                               THEN apiResponse(StatusBadRequest, ErrorBody(res.err))
                               ELSE apiResponse(StatusCreated, [user |-> res.user]))
              /\ table' = res.table
              /\ failures' = failures + Failed(res.calls)
              /\ created' = IF res.err # NoErr THEN created
                            ELSE [k \in DOMAIN created \cup {key} |->
                                     IF k = key
                                     THEN JsonUnmarshal(inv[p].req.Body).user
                                     ELSE created[k]]

\* The second step of handlers.UpdateUser.
UpdateUserPut(p) ==
    /\ inv[p].pc = "put"
    /\ inv[p].op = "UpdateUser"
    /\ \E ok \in BOOLEAN :
          LET res == PutUser(inv[p].newUser, ok)
          IN  /\ Outcome(ok)
              /\ inv' = Finish(p, res.calls,
                               IF res.err # NoErr
                               THEN apiResponse(StatusBadRequest, ErrorBody(res.err))
                               ELSE apiResponse(StatusOK, [user |-> res.user]))
              /\ table' = res.table
              /\ failures' = failures + Failed(res.calls)
              /\ created' = IF res.err # NoErr THEN created
                            ELSE Without(created, inv[p].newUser.email)

\* UserDeleteUser that reports a key the table does not hold as an error.
UserDeleteUserStrict(email, ok) ==
    LET del == DeleteItem(email, ok)
    IN  [err |-> IF del.err \/ email \notin DOMAIN table
                 THEN ErrorCouldNotDeleteItem ELSE NoErr,
         calls |-> <<del.call>>, table |-> del.table]

\* user.DeleteUser: the error it returns, the call and the table after it.
UserDeleteUser(email, ok) ==
    LET del == DeleteItem(email, ok)
    IN  [err |-> IF del.err THEN ErrorCouldNotDeleteItem ELSE NoErr,
         calls |-> <<del.call>>, table |-> del.table]

DeleteUser(p, r) ==
    \E ok \in BOOLEAN :
        LET res == UserDeleteUser(r.email, ok)
        IN  /\ Outcome(ok)
            /\ inv' = After(p, r, "done", "DeleteUser", ZeroUser, res.calls,
                            IF res.err # NoErr
                            THEN apiResponse(StatusBadRequest, ErrorBody(res.err))
                            ELSE apiResponse(StatusOK, [text |-> DeletedMessage]))
            /\ table' = res.table
            /\ failures' = failures + Failed(res.calls)
            /\ created' = IF res.err # NoErr THEN created
                          ELSE Without(created, r.email)

UnhandledMethod(p, r) ==
    /\ inv' = After(p, r, "done", "UnhandledMethod", ZeroUser, << >>,
                    apiResponse(StatusMethodNotAllowed,
                                [text |-> ErrorMethodNotAllowed]))
    /\ UNCHANGED <<table, failures, created>>

\* ------------------------------------------------------------ cmd/main

\* Route with the default branch taken for DELETE as well.
RouteNoDelete(method) ==
    CASE method = "GET" -> "GetUser"
      [] method = "POST" -> "CreateUser"
      [] method = "PUT" -> "UpdateUser"
      [] OTHER -> "UnhandledMethod"

\* The switch of handler on req.HTTPMethod.
Route(method) ==
    CASE method = "GET" -> "GetUser"
      [] method = "POST" -> "CreateUser"
      [] method = "PUT" -> "UpdateUser"
      [] method = "DELETE" -> "DeleteUser"
      [] OTHER -> "UnhandledMethod"

\* Lambda hands request r to invocation p, which is not handling one.
handler(p, r) ==
    /\ inv[p].pc # "put"
    /\ LET to == Route(r.HTTPMethod)
       IN  \/ to = "GetUser" /\ GetUser(p, r)
           \/ to = "CreateUser" /\ CreateUser(p, r)
           \/ to = "UpdateUser" /\ UpdateUser(p, r)
           \/ to = "DeleteUser" /\ DeleteUser(p, r)
           \/ to = "UnhandledMethod" /\ UnhandledMethod(p, r)

Next ==
    \E p \in Procs :
        \/ \E r \in RequestsOf(p) : handler(p, r)
        \/ CreateUserPut(p)
        \/ UpdateUserPut(p)

Spec == Init /\ [][Next]_vars

\* --------------------------------------------------------------- claims

Done(p) == inv[p].pc = "done"

\* The step in which invocation p takes up the request inv'[p].req.
Handles(p) == inv'[p].pc # "idle" /\ handler(p, inv'[p].req)

\* The step in which invocation p answers its request.
Answers(p) ==
    /\ inv'[p].pc = "done"
    /\ \/ Handles(p)
       \/ CreateUserPut(p)
       \/ UpdateUserPut(p)

BadRequest(msg) == apiResponse(StatusBadRequest, ErrorBody(msg))

Decodes(r) == ~JsonUnmarshal(r.Body).err

\* C1: a Create whose (valid) email had a record when the request came, and
\* that no other request overlapped, is answered 400 "user already exists"
\* and leaves the table as it was.
C1_DuplicateCreateRejected ==
    [][\A p \in Procs :
          (/\ inv'[p].op = "CreateUser"
           /\ inv'[p].existed
           /\ inv'[p].solo
           /\ Decodes(inv'[p].req)
           /\ IsEmailValid(RequestKey(inv'[p].req))
           /\ Answers(p))
          => /\ inv'[p].resp = BadRequest(ErrorUserAlreadyExists)
             /\ table' = table]_vars

\* C2: a request during which a DynamoDB call failed is answered 400, and the
\* failed call is the last call it made.
C2_FailureSurfaced ==
    \A p \in Procs :
        (Done(p) /\ Failed(inv[p].calls) > 0)
        => /\ inv[p].resp.StatusCode = StatusBadRequest
           /\ \A i \in 1..Len(inv[p].calls) :
                 ~inv[p].calls[i].ok => i = Len(inv[p].calls)

\* C3: an Update whose email had no record when the request came is answered
\* 400 "user doesn't exist" and writes nothing.
C3_UpdateNeverCreates ==
    [][\A p \in Procs :
          (/\ inv'[p].op = "UpdateUser"
           /\ ~inv'[p].existed
           /\ Decodes(inv'[p].req)
           /\ Answers(p))
          => /\ inv'[p].resp = BadRequest(ErrorUserDoesNotExist)
             /\ table' = table]_vars

HasPut(calls) == \E i \in 1..Len(calls) : calls[i].api = "PutItem"

\* C4: a Create whose body decodes to a user whose email fails the validator
\* is answered 400 "invalid email" at once, makes no PutItem call and leaves
\* the table as it was.
C4_InvalidEmailRejected ==
    [][\A p \in Procs : LET r == inv'[p].req IN
          (/\ r.HTTPMethod = "POST"
           /\ Decodes(r)
           /\ ~IsEmailValid(RequestKey(r))
           /\ Handles(p))
          => /\ inv'[p].pc = "done"
             /\ inv'[p].resp = BadRequest(ErrorInvalidEmail)
             /\ ~HasPut(inv'[p].calls)
             /\ table' = table]_vars

\* C4, reached: a Create of an object with a malformed email was answered
\* 400 "invalid email" while the table held a record.
C4_Witness ==
    /\ Done("i1")
    /\ inv["i1"].op = "CreateUser"
    /\ inv["i1"].req.Body \in JsonBodies
    /\ RequestKey(inv["i1"].req) = EmailBad
    /\ inv["i1"].resp = BadRequest(ErrorInvalidEmail)
    /\ DOMAIN table # {}

Fetched(code, user) == apiResponse(code, [user |-> user])

\* C5 as stated: a Get of an email whose last write is a Create answered 201
\* is answered 200 with the submitted user.
C5_RoundTripAlways ==
    [][\A p \in Procs : LET r == inv'[p].req IN
          (r.HTTPMethod = "GET" /\ r.email \in DOMAIN created /\ Handles(p))
          => inv'[p].resp = Fetched(StatusOK, created[r.email])]_vars

\* C5, amended: a Get of an email whose last write is a Create answered 201
\* is answered 200 with the submitted user, field for field, when its GetItem
\* call succeeds, and 400 "failed to fetch record from dynamodb" when it fails.
C5_RoundTrip ==
    [][\A p \in Procs : LET r == inv'[p].req IN
          (r.HTTPMethod = "GET" /\ r.email \in DOMAIN created /\ Handles(p))
          => inv'[p].resp =
                IF inv'[p].calls[1].ok
                THEN Fetched(StatusOK, created[r.email])
                ELSE BadRequest(ErrorFailedToFetchRecord)]_vars

\* C5, reached: a Get returned the user with an empty first name that a
\* Create had stored.
C5_Witness ==
    /\ Done("i1")
    /\ inv["i1"].op = "GetUser"
    /\ inv["i1"].req.email \in DOMAIN created
    /\ created[inv["i1"].req.email].firstname = ""
    /\ inv["i1"].resp = Fetched(StatusOK, created[inv["i1"].req.email])

Recognised == {"GET", "POST", "PUT", "DELETE"}

\* C6: the router answers a method other than GET, POST, PUT and DELETE with
\* 405 "method not allowed", without a DynamoDB call and without a change of
\* the table, and hands each of the four to its own operation.
C6_Router ==
    [][\A p \in Procs : LET r == inv'[p].req IN
          /\ inv'[p].pc # "idle"
                => /\ r.HTTPMethod = "GET" => inv'[p].op = "GetUser"
                   /\ r.HTTPMethod = "POST" => inv'[p].op = "CreateUser"
                   /\ r.HTTPMethod = "PUT" => inv'[p].op = "UpdateUser"
                   /\ r.HTTPMethod = "DELETE" => inv'[p].op = "DeleteUser"
                   /\ r.HTTPMethod \notin Recognised
                         => inv'[p].op = "UnhandledMethod"
          /\ (r.HTTPMethod \notin Recognised /\ Handles(p))
                => /\ inv'[p].pc = "done"
                   /\ inv'[p].resp = apiResponse(StatusMethodNotAllowed,
                                                 [text |-> ErrorMethodNotAllowed])
                   /\ inv'[p].calls = << >>
                   /\ table' = table]_vars

\* C6, reached: a lower-case "get" was answered 405 while the table held a
\* record.
C6_Witness ==
    /\ Done("i1")
    /\ inv["i1"].req.HTTPMethod = "get"
    /\ inv["i1"].op = "UnhandledMethod"
    /\ inv["i1"].resp.StatusCode = StatusMethodNotAllowed
    /\ DOMAIN table # {}

\* C7: a Delete whose DeleteItem call succeeds is answered 200 "User deleted
\* successfully", whether or not the table held the email; after it the
\* table holds no record of that email and every other record as before.
C7_Delete ==
    [][\A p \in Procs : LET r == inv'[p].req IN
          (/\ r.HTTPMethod = "DELETE"
           /\ inv'[p].calls = <<[api |-> "DeleteItem", ok |-> TRUE]>>
           /\ Handles(p))
          => /\ inv'[p].resp = apiResponse(StatusOK, [text |-> DeletedMessage])
             /\ DOMAIN table' = DOMAIN table \ {r.email}
             /\ \A k \in DOMAIN table' : table'[k] = table[k]]_vars

\* C7, reached: a Delete of an email the table did not hold was answered 200
\* and left the one record of the table in place.
C7_Witness ==
    /\ Done("i1")
    /\ inv["i1"].op = "DeleteUser"
    /\ ~inv["i1"].existed
    /\ inv["i1"].resp = apiResponse(StatusOK, [text |-> DeletedMessage])
    /\ DOMAIN table = {EmailA}

\* The record of an item, as the decoder reads it.
RecordOf(key) == IF key \in DOMAIN table THEN UnmarshalMap(table[key]) ELSE ZeroUser

AllRecords == {UnmarshalMap(table[k]) : k \in DOMAIN table}

\* C8 as stated: a Get without an email is answered 200 with every record of
\* the table, a Get with an email 200 with the record of that key, or the
\* zero-valued record when the table holds none; neither changes the table.
C8_GetAlways ==
    [][\A p \in Procs : LET r == inv'[p].req IN
          (r.HTTPMethod = "GET" /\ Handles(p))
          => /\ inv'[p].resp =
                   IF Len(r.email) = 0
                   THEN apiResponse(StatusOK, [users |-> AllRecords])
                   ELSE Fetched(StatusOK, RecordOf(r.email))
             /\ table' = table]_vars

\* C8, amended: as stated when the one DynamoDB call of the Get (Scan without
\* an email, GetItem with one) succeeds; when it fails the answer is 400
\* "failed to fetch record from dynamodb"; in both cases the table is unchanged.
C8_Get ==
    [][\A p \in Procs : LET r == inv'[p].req IN
          (r.HTTPMethod = "GET" /\ Handles(p))
          => /\ inv'[p].calls \in
                   {<<[api |-> IF Len(r.email) = 0 THEN "Scan" ELSE "GetItem",
                       ok |-> ok]>> : ok \in BOOLEAN}
             /\ inv'[p].resp =
                   IF ~inv'[p].calls[1].ok
                   THEN BadRequest(ErrorFailedToFetchRecord)
                   ELSE IF Len(r.email) = 0
                   THEN apiResponse(StatusOK, [users |-> AllRecords])
                   ELSE Fetched(StatusOK, RecordOf(r.email))
             /\ table' = table]_vars

\* C8, reached: a Get with the email of no record was answered 200 with the
\* zero-valued record while the table held another record.
C8_Witness ==
    /\ Done("i1")
    /\ inv["i1"].op = "GetUser"
    /\ inv["i1"].req.email = EmailB
    /\ inv["i1"].resp = Fetched(StatusOK, ZeroUser)
    /\ DOMAIN table = {EmailA}

\* C9 as stated, its second half: a Create that no other request overlapped,
\* of an email whose last write is a Create answered 201, is not answered 201.
C9_SequentialCreatesExclusive ==
    [][\A p \in Procs :
          (/\ inv'[p].op = "CreateUser"
           /\ inv'[p].solo
           /\ RequestKey(inv'[p].req) \in DOMAIN created
           /\ Answers(p))
          => inv'[p].resp.StatusCode # StatusCreated]_vars

\* C9, its first half, reached: two overlapping Creates of one unused email
\* were both answered 201, and the table holds the record of the later put.
C9_RaceWitness ==
    /\ \A p \in Procs :
          /\ Done(p)
          /\ inv[p].op = "CreateUser"
          /\ RequestKey(inv[p].req) = EmailA
          /\ ~inv[p].existed
          /\ ~inv[p].solo
          /\ Failed(inv[p].calls) = 0
          /\ inv[p].resp.StatusCode = StatusCreated
    /\ inv["i1"].newUser # inv["i2"].newUser
    /\ RecordOf(EmailA) = inv["i1"].newUser

Apis(calls) == [i \in 1..Len(calls) |-> calls[i].api]

\* C10 as stated: no request makes more than one DynamoDB call.
C10_AtMostOneCall == \A p \in Procs : Len(inv[p].calls) <= 1

\* C10, amended: a Get makes one call (GetItem or Scan), a Delete one
\* (DeleteItem), an unhandled method none, a Create or an Update at most two:
\* the GetItem of the existence check, then the PutItem.
C10_CallsPerOperation ==
    \A p \in Procs :
        /\ (Done(p) /\ inv[p].op = "GetUser")
              => Apis(inv[p].calls) \in {<<"GetItem">>, <<"Scan">>}
        /\ (Done(p) /\ inv[p].op = "DeleteUser")
              => Apis(inv[p].calls) = <<"DeleteItem">>
        /\ (Done(p) /\ inv[p].op = "UnhandledMethod") => inv[p].calls = << >>
        /\ inv[p].op \in {"CreateUser", "UpdateUser"}
              => Apis(inv[p].calls) \in {<< >>, <<"GetItem">>, <<"GetItem", "PutItem">>}

\* C10, reached: an Update was answered after a GetItem and a failed PutItem.
C10_Witness ==
    /\ Done("i1")
    /\ inv["i1"].op = "UpdateUser"
    /\ inv["i1"].calls = <<[api |-> "GetItem", ok |-> TRUE],
                           [api |-> "PutItem", ok |-> FALSE]>>

\* C11 as stated: every record of the table has an email the validator
\* accepts, whatever requests were served and whichever store calls failed.
C11_StoredEmailsValid ==
    \A k \in DOMAIN table : IsEmailValid(UnmarshalMap(table[k]).email)

\* C11, while no store call has failed: every stored email is valid, since an
\* Update then only replaces a record a validated Create wrote.
C11_StoredEmailsValidWithoutFailure ==
    failures = 0 => \A k \in DOMAIN table : IsEmailValid(UnmarshalMap(table[k]).email)

\* C11, reached: an Update whose existence check lost its GetItem was answered
\* 200 and left a record whose email the validator rejects.
C11_Witness ==
    /\ Done("i1")
    /\ inv["i1"].op = "UpdateUser"
    /\ inv["i1"].calls = <<[api |-> "GetItem", ok |-> FALSE],
                           [api |-> "PutItem", ok |-> TRUE]>>
    /\ inv["i1"].resp.StatusCode = StatusOK
    /\ EmailBad \in DOMAIN table
    /\ ~IsEmailValid(UnmarshalMap(table[EmailBad]).email)
====
